---- MODULE Spec2Model ----
(***************************************************************************)
(* The Iris prediction service (iris-fast-api.py): a process-wide model    *)
(* handle written by the startup hook load_model, a liveness endpoint      *)
(* GET / and a prediction endpoint POST /predict whose handler runs in a   *)
(* worker thread, so several requests may be in flight at once.            *)
(*                                                                         *)
(* Decimal numbers are modelled in tenths (5.1 is 51).                     *)
(***************************************************************************)
EXTENDS Integers, Sequences, FiniteSets, TLC

VARIABLES
    artifact,     \* what the file system holds at MODEL_PATH
    phase,        \* "startup" | "serving" | "crashed"
    model,        \* the global `model`: Unbound, None, or a model object
    stdout,       \* the lines printed so far
    loads,        \* number of joblib.load calls made so far
    writes,       \* number of assignments to the global `model` so far
    reqs,         \* the request being handled by each worker; afterFailure and
                  \* overlapped record when it ran relative to the others
    hadFailure    \* some inference call has raised

vars == <<artifact, phase, model, stdout, loads, writes, reqs, hadFailure>>

(***************************************************************************)
(* Bounds                                                                  *)
(***************************************************************************)
NumWorkers == 2

Workers == 1..NumWorkers

(***************************************************************************)
(* Configuration and request schema                                        *)
(***************************************************************************)
MODEL_PATH == "./model.joblib"

\* class IrisRequest: the four declared fields, in declaration order
IrisRequest == <<"sepal_length", "sepal_width", "petal_length", "petal_width">>

Fields == {IrisRequest[i] : i \in 1..Len(IrisRequest)}

\* JSON values a request body may carry for a field
Missing == [t |-> "missing"]
Number(n) == [t |-> "number", n |-> n]
String(s) == [t |-> "string", s |-> s]

\* measurement rows used as request contents (tenths)
ExampleRow == <<51, 35, 14, 2>>
SampleRows == { ExampleRow, <<63, 33, 60, 25>> }

BodyOf(row) == [f \in Fields |->
                  Number(row[CHOOSE i \in 1..Len(IrisRequest) : IrisRequest[i] = f])]

ValidBodies == {BodyOf(row) : row \in SampleRows}

\* one field of a well-formed body dropped, or replaced by a non-numeric value
MalformedBodies ==
    {[BodyOf(ExampleRow) EXCEPT ![f] = v] : f \in Fields,
                                           v \in {Missing, String("abc")}}

Bodies == ValidBodies \cup MalformedBodies

(***************************************************************************)
(* The model handle and the artifacts joblib.load may find                 *)
(***************************************************************************)
Unbound == [kind |-> "unbound"]   \* the global name `model` before line 22/26 ran
None == [kind |-> "None"]

IntLabels == <<[int |-> 0], [int |-> 1], [int |-> 2]>>
StrLabels == <<[str |-> "setosa"], [str |-> "versicolor"], [str |-> "virginica"]>>

\* deserialized classifiers: the number of features the estimator was fitted
\* on, its class labels, and the largest feature value it accepts
Estimator(n, classes, limit) ==
    [kind |-> "estimator", n_features_in |-> n, classes |-> classes, limit |-> limit]

Models == { Estimator(4, IntLabels, 100), Estimator(4, StrLabels, 100),
            Estimator(5, IntLabels, 100), Estimator(4, IntLabels, 55) }

\* failures of joblib.load that are subclasses of Exception
LoadFailures == {"FileNotFoundError", "UnpicklingError", "ModuleNotFoundError"}

\* a BaseException that is not an Exception
Interrupts == {"KeyboardInterrupt"}

Artifacts == [kind : {"raises"}, exc : LoadFailures \cup Interrupts]
             \cup [kind : {"object"}, value : Models]

\* joblib.load(MODEL_PATH)
joblib_load(a) ==
    IF a.kind = "object" THEN [ok |-> TRUE, value |-> a.value]
                         ELSE [ok |-> FALSE, exc |-> a.exc]

\* variant: `except FileNotFoundError`
ExceptFileNotFound(exc) == exc = "FileNotFoundError"

\* `except Exception`
ExceptException(exc) == exc \in LoadFailures

\* variant: the except branch without `model = None`
load_model_writes_no_reset(res) == IF res.ok THEN <<res.value>> ELSE <<>>

\* the assignments load_model makes to the global, in order
load_model_writes(res) == IF res.ok THEN <<res.value>> ELSE <<None>>

\* the line load_model prints (without its leading emoji)
load_model_prints(res) ==
    IF res.ok THEN <<"Model loaded successfully from", MODEL_PATH>>
              ELSE <<"Model not loaded:", res.exc>>

(***************************************************************************)
(* Request validation and the handlers' computations                       *)
(***************************************************************************)
NoBody == <<>>
NoArray == <<>>
NoPayload == [none |-> TRUE]

\* variant: fields declared with a default, so that a missing one passes
FieldOptional(v) == v.t \in {"number", "missing"}

\* pydantic's check of one declared float field
FieldOk(v) == v.t = "number"

\* validation of the body against IrisRequest, before the handler is called
Validate(body) == \A f \in Fields : FieldOk(body[f])

\* the float a field value is coerced to
Coerce(v) == IF v.t = "number" THEN v.n ELSE 0

\* the IrisRequest instance handed to predict
Parse(body) == [f \in Fields |-> Coerce(body[f])]

\* variant: two columns exchanged
FeatureArraySwapped(data) ==
    << <<data.sepal_width, data.sepal_length, data.petal_length, data.petal_width>> >>

\* np.array([[data.sepal_length, data.sepal_width, data.petal_length, data.petal_width]])
FeatureArray(data) ==
    << <<data.sepal_length, data.sepal_width, data.petal_length, data.petal_width>> >>

\* variant: the guard of line 34 never taken
IsNoneNever(h) == FALSE

\* `model is None`
IsNone(h) == h = None

\* the estimator's decision for one row
Classify(m, row) ==
    IF row[3] < 25 THEN m.classes[1]
    ELSE IF row[4] < 18 THEN m.classes[2] ELSE m.classes[3]

\* whether model.predict(X) raises: no such attribute on None, a row of the
\* wrong width, or a value the estimator rejects
PredictRaises(h, X) ==
    \/ h.kind # "estimator"
    \/ \E i \in 1..Len(X) :
         \/ Len(X[i]) # h.n_features_in
         \/ \E j \in 1..Len(X[i]) : X[i][j] > h.limit

\* model.predict(X): one label per row, as a one-dimensional array
ModelPredict(h, X) ==
    [shape |-> <<Len(X)>>, data |-> [i \in 1..Len(X) |-> Classify(h, X[i])]]

\* variant: pred[1:].tolist()
tolist_from_second(a) == Tail(a.data)

\* ndarray.tolist()
tolist(a) == a.data

\* variant: another status string
RootPayloadOther == [message |-> "Iris API"]

\* the payload of GET /
RootPayload == [message |-> "Iris API is up and running"]

NotLoadedPayload == [error |-> "Model not loaded"]

\* line 38
PredictionPayload(pred) == [prediction |-> tolist(pred)]

\* what the framework sends for a body that fails validation
ValidationErrorPayload == [detail |-> "validation error"]

\* what the framework sends when a handler raises
ServerErrorPayload == [text |-> "Internal Server Error"]

\* variant: the inference call wrapped in try/except, answering with the
\* "Model not loaded" payload
InferenceResultCaught(h, X) ==
    IF PredictRaises(h, X)
    THEN [status |-> 200, response |-> NotLoadedPayload, raised |-> TRUE]
    ELSE [status |-> 200, response |-> PredictionPayload(ModelPredict(h, X)),
          raised |-> FALSE]

\* lines 37-38 for one request: the outcome of the inference call
InferenceResult(h, X) ==
    IF PredictRaises(h, X)
    THEN [status |-> 500, response |-> ServerErrorPayload, raised |-> TRUE]
    ELSE [status |-> 200, response |-> PredictionPayload(ModelPredict(h, X)),
          raised |-> FALSE]

\* variant: X kept in a module-level global, so that line 37 reads the array
\* of whichever request the lowest-numbered worker holding one is handling
GlobalX(w) == reqs[CHOOSE v \in Workers :
                     /\ reqs[v].X # NoArray
                     /\ \A u \in Workers : reqs[u].X # NoArray => v <= u].X

\* the local X that line 37 of the request handled by worker w reads
LocalX(w) == reqs[w].X

(***************************************************************************)
(* State machine                                                           *)
(***************************************************************************)
Idle == [pc |-> "idle", endpoint |-> "none", body |-> NoBody, X |-> NoArray,
         calls |-> <<>>, status |-> 0, response |-> NoPayload,
         afterFailure |-> FALSE, overlapped |-> FALSE]

Init ==
    /\ artifact \in Artifacts
    /\ phase = "startup"
    /\ model = Unbound
    /\ stdout = <<>>
    /\ loads = 0
    /\ writes = 0
    /\ reqs = [w \in Workers |-> Idle]
    /\ hadFailure = FALSE

\* the startup hook, lines 18-26
load_model ==
    /\ phase = "startup"
    /\ LET res == joblib_load(artifact)
           ws == load_model_writes(res)
       IN /\ loads' = loads + 1
          /\ IF res.ok \/ ExceptException(res.exc)
             THEN /\ model' = IF ws = <<>> THEN model ELSE ws[Len(ws)]
                  /\ writes' = writes + Len(ws)
                  /\ stdout' = Append(stdout, load_model_prints(res))
                  /\ phase' = "serving"
             ELSE /\ phase' = "crashed"
                  /\ UNCHANGED <<model, writes, stdout>>
    /\ UNCHANGED <<artifact, reqs, hadFailure>>

\* a worker is free to take a request once its previous one has been answered
Free(w) == reqs[w].pc \in {"idle", "done"}

\* GET /, lines 28-30
root(w) ==
    /\ phase = "serving"
    /\ Free(w)
    /\ reqs' = [reqs EXCEPT ![w] =
                  [Idle EXCEPT !.pc = "done", !.endpoint = "root", !.status = 200,
                               !.response = RootPayload,
                               !.afterFailure = hadFailure]]
    /\ UNCHANGED <<artifact, phase, model, stdout, loads, writes, hadFailure>>

\* POST /predict with a body that fails validation: predict is never called
reject(w, body) ==
    /\ phase = "serving"
    /\ Free(w)
    /\ ~Validate(body)
    /\ reqs' = [reqs EXCEPT ![w] =
                  [Idle EXCEPT !.pc = "done", !.endpoint = "predict", !.body = body,
                               !.status = 422, !.response = ValidationErrorPayload,
                               !.afterFailure = hadFailure]]
    /\ UNCHANGED <<artifact, phase, model, stdout, loads, writes, hadFailure>>

\* POST /predict with a valid body, lines 33-36
predict_begin(w, body) ==
    /\ phase = "serving"
    /\ Free(w)
    /\ Validate(body)
    /\ LET new == [Idle EXCEPT !.endpoint = "predict", !.body = body,
                               !.afterFailure = hadFailure]
       IN reqs' = [reqs EXCEPT ![w] =
             IF model = Unbound
             THEN [new EXCEPT !.pc = "done", !.status = 500,
                              !.response = ServerErrorPayload]
             ELSE IF IsNone(model)
             THEN [new EXCEPT !.pc = "done", !.status = 200,
                              !.response = NotLoadedPayload]
             ELSE [new EXCEPT !.pc = "infer", !.X = FeatureArray(Parse(body))]]
    /\ UNCHANGED <<artifact, phase, model, stdout, loads, writes, hadFailure>>

\* another worker is between lines 36 and 37
InFlight(w) == \E v \in Workers \ {w} : reqs[v].pc = "infer"

\* lines 37-38
predict_infer(w) ==
    /\ reqs[w].pc = "infer"
    /\ LET X == LocalX(w)
           res == InferenceResult(model, X)
       IN /\ reqs' = [reqs EXCEPT ![w].pc = "done",
                                  ![w].calls = Append(@, X),
                                  ![w].overlapped = InFlight(w),
                                  ![w].status = res.status,
                                  ![w].response = res.response]
          /\ hadFailure' = (hadFailure \/ res.raised)
    /\ UNCHANGED <<artifact, phase, model, stdout, loads, writes>>

Next ==
    \/ load_model
    \/ \E w \in Workers : root(w)
    \/ \E w \in Workers, body \in Bodies : reject(w, body)
    \/ \E w \in Workers, body \in Bodies : predict_begin(w, body)
    \/ \E w \in Workers : predict_infer(w)

Spec == Init /\ [][Next]_vars

(***************************************************************************)
(* Properties                                                              *)
(***************************************************************************)
Done(w) == reqs[w].pc = "done"

IsPredict(w) == reqs[w].endpoint = "predict"

IsRoot(w) == reqs[w].endpoint = "root"

\* all four fields present and numeric
WellFormed(body) ==
    /\ body.sepal_length.t = "number"
    /\ body.sepal_width.t = "number"
    /\ body.petal_length.t = "number"
    /\ body.petal_width.t = "number"

\* the request's measurements in the order the estimator was fitted on
RowOf(body) ==
    <<body.sepal_length.n, body.sepal_width.n, body.petal_length.n, body.petal_width.n>>

Loaded == model.kind = "estimator"

Answered(w) == Done(w) /\ IsPredict(w) /\ WellFormed(reqs[w].body)

\* C1: while the handle is None, every answered POST /predict with a
\* well-formed body got exactly {"error": "Model not loaded"} with status
\* 200, and no request has reached or made an inference call.
C1_NotLoadedPayload ==
    model = None =>
        \A w \in Workers :
            /\ reqs[w].pc # "infer"
            /\ reqs[w].calls = <<>>
            /\ Answered(w) =>
                 /\ reqs[w].status = 200
                 /\ reqs[w].response = [error |-> "Model not loaded"]

C1_Witness ==
    /\ model = None
    /\ \E w \in Workers :
         /\ Answered(w)
         /\ reqs[w].response = [error |-> "Model not loaded"]

\* C2: a load that fails with a missing file, a corrupt artifact or an
\* incompatible format leaves the process serving with the handle None and
\* the diagnostic printed, both endpoints accept requests from then on, and
\* joblib.load is called once and never again.
C2_LoadFailureCaught ==
    /\ loads <= 1
    /\ phase # "startup" => loads = 1
    /\ ( /\ phase # "startup"
         /\ artifact.kind = "raises"
         /\ artifact.exc \in {"FileNotFoundError", "UnpicklingError",
                              "ModuleNotFoundError"} )
       => /\ phase = "serving"
          /\ model = None
          /\ stdout = << <<"Model not loaded:", artifact.exc>> >>
          /\ \A w \in Workers :
               /\ ENABLED root(w)
               /\ \A body \in ValidBodies : ENABLED predict_begin(w, body)

C2_Witness ==
    /\ artifact.kind = "raises"
    /\ artifact.exc = "UnpicklingError"
    /\ model = None
    /\ \E v, w \in Workers :
         /\ Done(v) /\ IsRoot(v) /\ reqs[v].status = 200
         /\ Answered(w) /\ reqs[w].status = 200

\* C3: the handle is Unloaded (unbound or None) or Loaded (an estimator);
\* nothing is handled before the startup hook has run; once serving the
\* handle has been assigned exactly once; the only step that changes it is
\* the startup hook, from Unloaded; and a Loaded handle stays Loaded.
C3_HandleState ==
    /\ model \in {Unbound, None} \/ Loaded
    /\ phase = "startup" =>
         /\ model = Unbound
         /\ writes = 0
         /\ \A w \in Workers : reqs[w].pc = "idle"
    /\ phase = "serving" => writes = 1 /\ model # Unbound
    /\ phase = "crashed" => \A w \in Workers : reqs[w].pc = "idle"

C3_HandleStep ==
    /\ model' # model =>
         /\ phase = "startup"
         /\ model \in {Unbound, None}
         /\ reqs' = reqs
    /\ Loaded => model' = model
    /\ phase = "serving" => model' = model /\ writes' = writes /\ phase' = phase

C3_WrittenOnce == []C3_HandleState /\ [][C3_HandleStep]_vars

C3_Witness ==
    /\ phase = "serving"
    /\ Loaded
    /\ writes = 1
    /\ \E v, w \in Workers :
         /\ Done(v) /\ IsRoot(v)
         /\ Done(w) /\ IsPredict(w) /\ reqs[w].calls # <<>>

C5_FeatureRow ==
    \A w \in Workers :
        /\ Len(reqs[w].calls) <= 1
        /\ reqs[w].pc = "infer" => reqs[w].X = <<RowOf(reqs[w].body)>>
        /\ \A i \in 1..Len(reqs[w].calls) :
             /\ Len(reqs[w].calls[i]) = 1
             /\ Len(reqs[w].calls[i][1]) = 4
             /\ reqs[w].calls[i][1][1] = reqs[w].body.sepal_length.n
             /\ reqs[w].calls[i][1][2] = reqs[w].body.sepal_width.n
             /\ reqs[w].calls[i][1][3] = reqs[w].body.petal_length.n
             /\ reqs[w].calls[i][1][4] = reqs[w].body.petal_width.n

C5_Witness ==
    \E w \in Workers :
        /\ Done(w)
        /\ reqs[w].calls = << << <<51, 35, 14, 2>> >> >>

\* C6: every answered GET / got exactly {"message": "Iris API is up and
\* running"} with status 200, carried no input and made no inference call,
\* whatever the handle and whatever failed before; and a step that answers
\* GET / leaves the handle as it was.
C6_RootAnswer ==
    \A w \in Workers :
        (Done(w) /\ IsRoot(w)) =>
            /\ reqs[w].status = 200
            /\ reqs[w].response = [message |-> "Iris API is up and running"]
            /\ reqs[w].body = NoBody
            /\ reqs[w].calls = <<>>

C6_RootStep ==
    \A w \in Workers :
        (reqs'[w] # reqs[w] /\ reqs'[w].endpoint = "root") =>
            /\ model' = model
            /\ writes' = writes

C6_Liveness == []C6_RootAnswer /\ [][C6_RootStep]_vars

C6_Witness ==
    /\ hadFailure
    /\ \E v, w \in Workers :
         /\ Done(v) /\ IsRoot(v) /\ reqs[v].afterFailure
         /\ Done(w) /\ IsPredict(w) /\ reqs[w].status = 500

\* C7: a POST /predict whose body lacks a field or carries a non-numeric
\* one is answered by the validation layer: the handler never runs for it,
\* no inference call is made, and the answer is neither a prediction nor
\* the "Model not loaded" payload, with or without a model.
C7_MalformedRejected ==
    \A w \in Workers :
        (IsPredict(w) /\ ~WellFormed(reqs[w].body)) =>
            /\ Done(w)
            /\ reqs[w].status = 422
            /\ reqs[w].X = NoArray
            /\ reqs[w].calls = <<>>
            /\ reqs[w].response # [error |-> "Model not loaded"]
            /\ "prediction" \notin DOMAIN reqs[w].response

C7_Witness ==
    \E v, w \in Workers :
        /\ Loaded
        /\ Done(v) /\ IsPredict(v) /\ reqs[v].body.petal_width.t = "missing"
        /\ Done(w) /\ IsPredict(w) /\ reqs[w].body.sepal_length.t = "string"

\* C8: with a model loaded, two answered POST /predict requests with the
\* same well-formed body carry the same answer.
C8_Idempotent ==
    Loaded =>
        \A v, w \in Workers :
            (Answered(v) /\ Answered(w) /\ reqs[v].body = reqs[w].body) =>
                /\ reqs[v].status = reqs[w].status
                /\ reqs[v].response = reqs[w].response

C8_Witness ==
    /\ Loaded
    /\ \E v, w \in Workers :
         /\ v # w
         /\ Answered(v) /\ Answered(w)
         /\ reqs[v].body = reqs[w].body
         /\ "prediction" \in DOMAIN reqs[v].response
         /\ reqs[v].afterFailure # reqs[w].afterFailure

\* what a request gets when it is the only one being handled
Alone(h, r) ==
    IF r.endpoint = "root" THEN [status |-> 200, response |-> RootPayload]
    ELSE IF ~Validate(r.body)
    THEN [status |-> 422, response |-> ValidationErrorPayload]
    ELSE IF IsNone(h) THEN [status |-> 200, response |-> NotLoadedPayload]
    ELSE LET res == InferenceResult(h, FeatureArray(Parse(r.body)))
         IN [status |-> res.status, response |-> res.response]

\* C9: every answered request carries the answer it would get when handled
\* alone against the same handle, whether or not other requests were in
\* flight, and the array a request hands to the estimator is its own.
C9_Isolation ==
    \A w \in Workers :
        /\ Done(w) =>
             [status |-> reqs[w].status, response |-> reqs[w].response]
                 = Alone(model, reqs[w])
        /\ \A i \in 1..Len(reqs[w].calls) :
             reqs[w].calls[i] = FeatureArray(Parse(reqs[w].body))

C9_Witness ==
    \E v, w \in Workers :
        /\ Done(v) /\ reqs[v].overlapped
        /\ reqs[w].pc = "infer"
        /\ reqs[v].body # reqs[w].body

\* C10: a POST /predict whose inference call raises is answered as an
\* unhandled failure, with neither a prediction nor the "Model not loaded"
\* payload; after such a failure the process is still serving with the same
\* Loaded handle, and requests arriving later get their usual answers.
C10_InferenceFailure ==
    /\ \A w \in Workers :
         ( /\ Loaded
           /\ Answered(w)
           /\ PredictRaises(model, <<RowOf(reqs[w].body)>>) )
         => /\ reqs[w].status = 500
            /\ reqs[w].response # [error |-> "Model not loaded"]
            /\ "prediction" \notin DOMAIN reqs[w].response
            /\ hadFailure
    /\ hadFailure =>
         /\ phase = "serving"
         /\ Loaded
         /\ model = artifact.value
         /\ \A w \in Workers :
              (Done(w) /\ reqs[w].afterFailure) =>
                  /\ IsRoot(w) => reqs[w].response = [message |-> "Iris API is up and running"]
                  /\ (Answered(w) /\ ~PredictRaises(model, <<RowOf(reqs[w].body)>>))
                     => reqs[w].response =
                          [prediction |-> ModelPredict(model, <<RowOf(reqs[w].body)>>).data]

C10_Witness ==
    /\ hadFailure
    /\ \E v, w \in Workers :
         /\ Answered(v) /\ reqs[v].status = 500
         /\ Answered(w) /\ reqs[w].afterFailure
         /\ "prediction" \in DOMAIN reqs[w].response

====
